---- MODULE Spec2Model ----
(***************************************************************************)
(* A model of p2plab's benchmark orchestration:                            *)
(*   nodes.Connect          (src/nodes/connect.go)                         *)
(*   scenarios.Plan         (src/unnamed/part_000)                         *)
(*   postBenchmarksCreate   (src/labd/routers/benchmarkrouter/router.go)   *)
(*                                                                         *)
(* SpecConnect is the specification of Connect, goroutine by goroutine;    *)
(* Spec is that of the handler and of Plan, which it calls, with the       *)
(* handler's call of Connect as one step that returns nil or an error.     *)
(* SpecRun is the handler with both Connect and Plan stepped, FairSpecRun  *)
(* is SpecRun with every enabled step eventually taken, and SpecTwice      *)
(* calls Plan twice on the same inputs.                                    *)
(*                                                                         *)
(* Loop variables.  connect.go starts its goroutines with                  *)
(*     for i, n := range ns { g.Go(func() error { ... n ... i ... }) }     *)
(* without the per-iteration copy `i, n := i, n` that Plan makes for       *)
(* `name, odef`.  The sources are written for the Go of 2019, in which a   *)
(* range loop has ONE i and ONE n shared by every closure: a goroutine     *)
(* reads them while the loop goes on assigning them (a data race).  The    *)
(* model keeps the shared loop variable and lets each goroutine read the   *)
(* value it holds at the moment of the read, so that the goroutine's own   *)
(* index is one of the possible outcomes, not the only one.                *)
(***************************************************************************)
EXTENDS Integers, Sequences, FiniteSets, TLC

\* ------------------------------------------------------------------ bounds
NumNodes == 3

NodeIdx == 1..NumNodes

\* ------------------------------------------------------------ Connect state
VARIABLES
    nodeKind,     \* input: what each node's PeerInfo answers
    cpc,          \* Connect's own position
    loopVar,      \* the range loop's shared index variable (i, and n = ns[i])
    w1,           \* address-collection goroutines: position
    w1info,       \* ... the peer info the goroutine holds
    peerAddrs,    \* the results array
    g1err,        \* collectPeerAddrs: the group's recorded error
    ctx1Done,     \* the context of collectPeerAddrs is cancelled
    w2,           \* connect goroutines: position
    g2err,        \* connectPeers: the group's recorded error
    ctx2Done,     \* the context of connectPeers is cancelled
    dispatched,   \* the n.Run calls made, by goroutine
    failOrder,    \* goroutines of the current phase that returned an error, in order
    written,      \* the slot each address-collection goroutine wrote (0: none)
    connRet       \* what Connect returned

connVars == <<nodeKind, cpc, loopVar, w1, w1info, peerAddrs, g1err, ctx1Done,
              w2, g2err, ctx2Done, dispatched, failOrder, written, connRet>>

\* --------------------------------------------------- Plan and handler state
VARIABLES
    hpc,          \* postBenchmarksCreate: position
    noReset,      \* the no-reset form value
    hret,         \* what the handler returned
    failedAt,     \* the step whose failure ended the run ("" while none failed)
    dbCalls,      \* the store's write operations called so far
    benchmark,    \* the handler's local benchmark value
    report,       \* the handler's local report value
    execPlan,     \* the plan handed to scenarios.Run
    steps,        \* the steps the handler has started, in order
    run1,         \* what an earlier call of Plan on the same arguments returned
    storeBench,   \* the store: the committed benchmark record
    storeReport,  \* the store: the committed report
    txOpen,       \* a write transaction is open
    txBench,      \* the open transaction's view of the benchmark record
    txReport,     \* the open transaction's view of the report
    ppc,          \* Plan: position
    objLeft,      \* object definitions the first loop has not reached yet
    okind,        \* each object definition's kind, read when its worker starts
    ow,           \* object workers: position
    oc,           \* object workers: the CID held
    mu,           \* the mutex: 0, or the worker holding it
    gerr,         \* the objects group's recorded error
    gctxDone,     \* the objects group's context is cancelled
    objFailOrder, \* object workers that returned an error, in order
    planObjects,  \* plan.Objects
    planSeed,     \* plan.Seed
    planBench,    \* plan.Benchmark
    queries,      \* the audit map being built
    seedDef,      \* sdef.Seed, in the definition's order
    benchDef,     \* sdef.Benchmark, in the definition's order
    entLeft,      \* entries the running range loop has not visited yet
    visitedSeed,  \* seed entries in the order the loop visited them
    visitedBench, \* benchmark entries in the order the loop visited them
    objReads,     \* reads of plan.Objects by seed and benchmark planning
    planRet       \* what Plan returned

planVars == <<ppc, objLeft, okind, ow, oc, mu, gerr, gctxDone, objFailOrder,
              planObjects, planSeed, planBench, queries, seedDef, benchDef,
              entLeft, visitedSeed, visitedBench, objReads, planRet>>

storeVars == <<storeBench, storeReport, txOpen, txBench, txReport>>

handlerVars == <<hpc, noReset, hret, failedAt, dbCalls, benchmark, report,
                 execPlan, steps, run1>>

benchVars == <<handlerVars, storeVars, planVars>>

vars == <<connVars, benchVars>>

\* ------------------------------------------------------------ Connect values
NoErr == [kind |-> "nil", node |-> 0]

\* Connect has not returned yet.
Running == [kind |-> "running", node |-> 0]
ErrPeerInfo(n) == [kind |-> "peerinfo", node |-> n]
ErrCtx(n) == [kind |-> "canceled", node |-> n]
ErrRun(n) == [kind |-> "run", node |-> n]

\* connect.go:40  errors.Errorf("peer %q has zero addresses", ...)
ErrZeroAddrs(n) == [kind |-> "zeroaddrs", node |-> n]

NoInfo == [Addrs |-> <<>>, ID |-> 0]

\* n.PeerInfo: the node's transport addresses and its peer identifier.
PeerInfoOf(n) ==
    [Addrs |-> IF nodeKind[n] = "noaddr" THEN <<>> ELSE <<100 + n, 200 + n>>,
     ID |-> n]

EmptyString == [addr |-> 0, id |-> 0]

\* connect.go:43  fmt.Sprintf("%s/p2p/%s", peerInfo.Addrs[0], peerInfo.ID)
DialString(info) == [addr |-> info.Addrs[1], id |-> info.ID]

\* connect.go:58  strings.Join(peerAddrs, ","): one piece per slot, in slot
\* order, an empty slot giving an empty piece.
JoinAddrs(addrs) == [i \in NodeIdx |-> addrs[i]]

NoTask == [node |-> 0, Type |-> "none", Subject |-> <<>>, ctxDone |-> FALSE]

\* errgroup.WithContext: the derived context is cancelled as soon as its
\* parent is.
WithContext(parentDone) == parentDone

\* errgroup.Group.Go, errOnce.Do: only the first error is kept.
GroupErrLast(cur, e) == e
GroupErr(cur, e) == IF cur = NoErr THEN e ELSE cur

\* connect.go:29-31  Connect's locals at entry.
ConnectEntry ==
    /\ cpc = "collect"
    /\ loopVar = 0
    /\ w1 = [k \in NodeIdx |-> "idle"]
    /\ w1info = [k \in NodeIdx |-> NoInfo]
    /\ peerAddrs = [k \in NodeIdx |-> EmptyString]
    /\ g1err = NoErr
    /\ ctx1Done = WithContext(FALSE)
    /\ w2 = [k \in NodeIdx |-> "idle"]
    /\ g2err = NoErr
    /\ ctx2Done = FALSE
    /\ dispatched = [k \in NodeIdx |-> NoTask]
    /\ failOrder = <<>>
    /\ written = [k \in NodeIdx |-> 0]
    /\ connRet = Running

\* connect.go:32-46  one iteration of the first loop: assign i, n and start
\* the goroutine.
LaunchCollect ==
    /\ cpc = "collect"
    /\ loopVar < NumNodes
    /\ loopVar' = loopVar + 1
    /\ w1' = [w1 EXCEPT ![loopVar + 1] = "call"]
    /\ cpc' = IF loopVar + 1 = NumNodes THEN "wait1" ELSE "collect"
    /\ UNCHANGED <<benchVars, written, nodeKind, w1info, peerAddrs, g1err, ctx1Done, w2, g2err,
                   ctx2Done, dispatched, failOrder, connRet>>

\* The goroutine returns err: the group records it and cancels its context.
Collect1Fail(k, e) ==
    /\ w1' = [w1 EXCEPT ![k] = "done"]
    /\ g1err' = GroupErr(g1err, e)
    /\ ctx1Done' = TRUE
    /\ failOrder' = Append(failOrder, [worker |-> k, err |-> e])
    /\ UNCHANGED <<benchVars, written, nodeKind, cpc, loopVar, w1info, peerAddrs, w2, g2err,
                   ctx2Done, dispatched, connRet>>

\* The index a goroutine started for slot k reads from the shared loop
\* variable.
ReadLoopVar(k) == loopVar

\* connect.go:34-41  n.PeerInfo(ctx) on the node n holds now, and the two
\* error returns.
CollectPeerInfo(k) ==
    /\ w1[k] = "call"
    /\ LET n == ReadLoopVar(k) IN
       \/ /\ nodeKind[n] = "fail"
          /\ Collect1Fail(k, ErrPeerInfo(n))
       \/ /\ ctx1Done
          /\ Collect1Fail(k, ErrCtx(n))
       \/ /\ nodeKind[n] # "fail"
          /\ Len(PeerInfoOf(n).Addrs) = 0
          /\ Collect1Fail(k, ErrZeroAddrs(n))
       \/ /\ nodeKind[n] # "fail"
          /\ Len(PeerInfoOf(n).Addrs) # 0
          /\ w1' = [w1 EXCEPT ![k] = "got"]
          /\ w1info' = [w1info EXCEPT ![k] = PeerInfoOf(n)]
          /\ UNCHANGED <<benchVars, written, nodeKind, cpc, loopVar, peerAddrs, g1err, ctx1Done,
                         w2, g2err, ctx2Done, dispatched, failOrder, connRet>>

\* connect.go:43-44  peerAddrs[i] = ...; return nil, with the i held now.
CollectWrite(k) ==
    /\ w1[k] = "got"
    /\ peerAddrs' = [peerAddrs EXCEPT ![ReadLoopVar(k)] = DialString(w1info[k])]
    /\ written' = [written EXCEPT ![k] = ReadLoopVar(k)]
    /\ w1' = [w1 EXCEPT ![k] = "done"]
    /\ UNCHANGED <<benchVars, nodeKind, cpc, loopVar, w1info, g1err, ctx1Done, w2, g2err,
                   ctx2Done, dispatched, failOrder, connRet>>

\* collectPeerAddrs.Wait() returns once every goroutine has returned.
AnyCollected == \E k \in NodeIdx : w1[k] = "done"
AllCollected == \A k \in NodeIdx : w1[k] = "done"

\* connect.go:48-53  collectPeerAddrs.Wait(): every goroutine has returned;
\* Wait cancels the group's context and returns the recorded error.  On
\* success the second group derives its context from ctx, which line 31
\* rebound to the first group's context.
WaitCollect ==
    /\ cpc = "wait1"
    /\ AllCollected
    /\ ctx1Done' = TRUE
    /\ IF g1err # NoErr
       THEN /\ connRet' = g1err
            /\ cpc' = "done"
            /\ UNCHANGED <<loopVar, ctx2Done, failOrder>>
       ELSE /\ cpc' = "broadcast"
            /\ loopVar' = 0
            /\ ctx2Done' = WithContext(ctx1Done')
            /\ failOrder' = <<>>
            /\ UNCHANGED connRet
    /\ UNCHANGED <<benchVars, written, nodeKind, w1, w1info, peerAddrs, g1err, w2, g2err, dispatched>>

\* connect.go:54-61  one iteration of the second loop.
LaunchBroadcast ==
    /\ cpc = "broadcast"
    /\ loopVar < NumNodes
    /\ loopVar' = loopVar + 1
    /\ w2' = [w2 EXCEPT ![loopVar + 1] = "call"]
    /\ cpc' = IF loopVar + 1 = NumNodes THEN "wait2" ELSE "broadcast"
    /\ UNCHANGED <<benchVars, written, nodeKind, w1, w1info, peerAddrs, g1err, ctx1Done, g2err,
                   ctx2Done, dispatched, failOrder, connRet>>

\* connect.go:55-60  n.Run(ctx, Task{TaskConnect, strings.Join(peerAddrs, ",")})
\* on the node n holds now; the call succeeds or fails.
BroadcastRun(k) ==
    /\ w2[k] = "call"
    /\ LET n == ReadLoopVar(k) IN
       /\ dispatched' = [dispatched EXCEPT ![k] =
              [node |-> n, Type |-> "connect", Subject |-> JoinAddrs(peerAddrs),
               ctxDone |-> ctx2Done]]
       /\ w2' = [w2 EXCEPT ![k] = "done"]
       /\ \/ UNCHANGED <<g2err, ctx2Done, failOrder>>
          \/ /\ g2err' = GroupErr(g2err, ErrRun(n))
             /\ ctx2Done' = TRUE
             /\ failOrder' = Append(failOrder, [worker |-> k, err |-> ErrRun(n)])
    /\ UNCHANGED <<benchVars, written, nodeKind, cpc, loopVar, w1, w1info, peerAddrs, g1err,
                   ctx1Done, connRet>>

\* connect.go:63-68  connectPeers.Wait() and Connect's return.
WaitBroadcast ==
    /\ cpc = "wait2"
    /\ \A k \in NodeIdx : w2[k] = "done"
    /\ ctx2Done' = TRUE
    /\ connRet' = g2err
    /\ cpc' = "done"
    /\ UNCHANGED <<benchVars, written, nodeKind, loopVar, w1, w1info, peerAddrs, g1err, ctx1Done,
                   w2, g2err, dispatched, failOrder>>

\* ------------------------------------------------------------- Plan values
NumObjects == 2
MaxEntries == 2

Objs == 1..NumObjects

\* The labeled set the handler builds from ListNodes, in insertion order
\* (router.go:137-143); a node's identifier is its index.
LSet == [i \in NodeIdx |-> i]

NodeLabel(n) == IF n % 2 = 1 THEN "x" ELSE "y"

PlanNoErr == [kind |-> "nil", obj |-> 0, q |-> ""]
NotReturned == [kind |-> "running", obj |-> 0, q |-> ""]
ErrObj(kind, o) == [kind |-> kind, obj |-> o, q |-> ""]
ErrEntry(kind, e) == [kind |-> kind, obj |-> 0, q |-> e.q]

EmptyMap == [k \in {} |-> 0]

EmptyPlan == [Objects |-> EmptyMap, Seed |-> EmptyMap, Benchmark |-> EmptyMap]

\* Transform: the content identifier of an object, a function of its
\* definition.
CidOf(o) == 1000 + o

\* Query expressions: "x", "y", "(x)", "(" and "x~".
\* query.Parse fails on an expression it cannot parse.
QParseOK(q) == q # "("

\* Query.String: the canonical form; "(x)" and "x" are the same query.
QString(q) == IF q = "(x)" THEN "x" ELSE q

\* Query.Match: the entities of the set whose labels satisfy the query, in
\* the set's order; the evaluation of "x~" fails.
QMatchOK(q) == q # "x~"
QMatch(q) == SelectSeq(LSet, LAMBDA n : NodeLabel(n) = QString(q))

\* l.ID() of each member of the matched set, in its order (part_000:81-84).
IDs(mset) == [i \in 1..Len(mset) |-> mset[i]]

\* Action expressions: get an object, and one whose Tasks fails.
\* actions.Parse fails on a reference to an object absent from the table;
\* Tasks gives every node the action's task.
Get(o) == [op |-> "get", obj |-> o]
Boom == [op |-> "boom", obj |-> 1]
AParseOK(objects, a) == a.obj \in DOMAIN objects
ATasksOK(a) == a.op # "boom"
ATasks(objects, a, ns) ==
    [id \in {ns[i] : i \in 1..Len(ns)} |->
        [Type |-> a.op, Subject |-> objects[a.obj]]]

\* The (query, action) pairs a phase definition is made of, and the phase
\* definitions: up to MaxEntries pairs, no query twice (the keys of a map).
Entries ==
    {[q |-> "x", a |-> Get(1)], [q |-> "y", a |-> Get(NumObjects)],
     [q |-> "(x)", a |-> Get(1)], [q |-> "y", a |-> Get(NumObjects + 1)],
     [q |-> "x", a |-> Boom], [q |-> "(", a |-> Get(1)],
     [q |-> "x~", a |-> Get(1)]}
PhaseDefs ==
    {d \in UNION {[1..n -> Entries] : n \in 0..MaxEntries} :
        \A i, j \in 1..Len(d) : i # j => d[i].q # d[j].q}

Range(f) == {f[i] : i \in DOMAIN f}

\* m[k] = v on a Go map.
MapPut(m, k, v) == (k :> v) @@ m

\* Plan's locals before it is called.
PlanIdle ==
    /\ ppc = "idle"
    /\ objLeft = {}
    /\ okind = [o \in Objs |-> "ok"]
    /\ ow = [o \in Objs |-> "idle"]
    /\ oc = [o \in Objs |-> 0]
    /\ mu = 0
    /\ gerr = PlanNoErr
    /\ gctxDone = FALSE
    /\ objFailOrder = <<>>
    /\ planObjects = EmptyMap
    /\ planSeed = EmptyMap
    /\ planBench = EmptyMap
    /\ queries = EmptyMap
    /\ seedDef = <<>>
    /\ benchDef = <<>>
    /\ entLeft = {}
    /\ visitedSeed = <<>>
    /\ visitedBench = <<>>
    /\ objReads = 0
    /\ planRet = [plan |-> EmptyPlan, queries |-> EmptyMap, queriesNil |-> TRUE,
                  err |-> NotReturned]

PlanValue == [Objects |-> planObjects, Seed |-> planSeed, Benchmark |-> planBench]

\* The scenario definition as Plan reads it: the kind of an object
\* definition (sdef.Objects, part_000:42), the seed entries (sdef.Seed,
\* part_000:70) and the benchmark entries (sdef.Benchmark, part_000:107).  A
\* call of Plan that follows another on the same definition reads what the
\* first one read.
ObjectKinds(o) == IF run1.done THEN {okind[o]} ELSE {"ok", "badtype", "badsrc"}
SeedDefs == IF run1.done THEN {seedDef} ELSE PhaseDefs
BenchDefs == IF run1.done THEN {benchDef} ELSE PhaseDefs

\* part_000:42-62  one iteration of the objects loop: the definition is read
\* and its worker started (a map is ranged over in no particular order).
LaunchObject(o) ==
    /\ ppc = "objects"
    /\ o \in objLeft
    /\ objLeft' = objLeft \ {o}
    /\ \E kind \in ObjectKinds(o) : okind' = [okind EXCEPT ![o] = kind]
    /\ ow' = [ow EXCEPT ![o] = "get"]
    /\ ppc' = IF objLeft = {o} THEN "waitobj" ELSE "objects"
    /\ UNCHANGED <<oc, mu, gerr, gctxDone, objFailOrder, planObjects, planSeed,
                   planBench, queries, seedDef, benchDef, entLeft, visitedSeed,
                   visitedBench, objReads, planRet>>
    /\ UNCHANGED <<connVars, handlerVars, storeVars>>

\* errgroup: the first error is kept and the group's context cancelled.
ObjGroupErrDropped(cur, e) == cur
ObjGroupErr(cur, e) == IF cur = PlanNoErr THEN e ELSE cur

\* The worker returns err.
ObjFail(o, e) ==
    /\ ow' = [ow EXCEPT ![o] = "done"]
    /\ gerr' = ObjGroupErr(gerr, e)
    /\ gctxDone' = TRUE
    /\ objFailOrder' = Append(objFailOrder, [worker |-> o, err |-> e])
    /\ UNCHANGED <<ppc, objLeft, okind, oc, mu, planObjects, planSeed,
                   planBench, queries, seedDef, benchDef, entLeft, visitedSeed,
                   visitedBench, objReads, planRet>>
    /\ UNCHANGED <<connVars, handlerVars, storeVars>>

\* part_000:45-48  ts.Get(odef.Type)
ObjGet(o) ==
    /\ ow[o] = "get"
    /\ IF okind[o] = "badtype"
       THEN ObjFail(o, ErrObj("get", o))
       ELSE /\ ow' = [ow EXCEPT ![o] = "transform"]
            /\ UNCHANGED <<ppc, objLeft, okind, oc, mu, gerr, gctxDone,
                           objFailOrder, planObjects, planSeed, planBench,
                           queries, seedDef, benchDef, entLeft, visitedSeed,
                           visitedBench, objReads, planRet>>
            /\ UNCHANGED <<connVars, handlerVars, storeVars>>

\* part_000:50-55  t.Transform(gctx, ...): fails on a bad source, may fail
\* once gctx is cancelled, and gives the object's CID otherwise.
ObjTransform(o) ==
    /\ ow[o] = "transform"
    /\ \/ /\ okind[o] = "badsrc"
          /\ ObjFail(o, ErrObj("transform", o))
       \/ /\ gctxDone
          /\ ObjFail(o, ErrObj("canceled", o))
       \/ /\ okind[o] # "badsrc"
          /\ oc' = [oc EXCEPT ![o] = CidOf(o)]
          /\ ow' = [ow EXCEPT ![o] = "lock"]
          /\ UNCHANGED <<ppc, objLeft, okind, mu, gerr, gctxDone, objFailOrder,
                         planObjects, planSeed, planBench, queries, seedDef,
                         benchDef, entLeft, visitedSeed, visitedBench, objReads,
                         planRet>>
          /\ UNCHANGED <<connVars, handlerVars, storeVars>>

\* part_000:57  mu.Lock()
ObjLockNoWait(o) ==
    /\ ow[o] = "lock"
    /\ mu' = o
    /\ ow' = [ow EXCEPT ![o] = "write"]
    /\ UNCHANGED <<ppc, objLeft, okind, oc, gerr, gctxDone, objFailOrder,
                   planObjects, planSeed, planBench, queries, seedDef, benchDef,
                   entLeft, visitedSeed, visitedBench, objReads, planRet>>
    /\ UNCHANGED <<connVars, handlerVars, storeVars>>
ObjLock(o) ==
    /\ ow[o] = "lock"
    /\ mu = 0
    /\ mu' = o
    /\ ow' = [ow EXCEPT ![o] = "write"]
    /\ UNCHANGED <<ppc, objLeft, okind, oc, gerr, gctxDone, objFailOrder,
                   planObjects, planSeed, planBench, queries, seedDef, benchDef,
                   entLeft, visitedSeed, visitedBench, objReads, planRet>>
    /\ UNCHANGED <<connVars, handlerVars, storeVars>>

\* part_000:58  plan.Objects[name] = c
ObjWrite(o) ==
    /\ ow[o] = "write"
    /\ planObjects' = MapPut(planObjects, o, oc[o])
    /\ ow' = [ow EXCEPT ![o] = "unlock"]
    /\ UNCHANGED <<ppc, objLeft, okind, oc, mu, gerr, gctxDone, objFailOrder,
                   planSeed, planBench, queries, seedDef, benchDef, entLeft,
                   visitedSeed, visitedBench, objReads, planRet>>
    /\ UNCHANGED <<connVars, handlerVars, storeVars>>

\* part_000:59-60  mu.Unlock(); return nil
ObjUnlockHeld(o) ==
    /\ ow[o] = "unlock"
    /\ mu' = mu
    /\ ow' = [ow EXCEPT ![o] = "done"]
    /\ UNCHANGED <<ppc, objLeft, okind, oc, gerr, gctxDone, objFailOrder,
                   planObjects, planSeed, planBench, queries, seedDef, benchDef,
                   entLeft, visitedSeed, visitedBench, objReads, planRet>>
    /\ UNCHANGED <<connVars, handlerVars, storeVars>>
ObjUnlock(o) ==
    /\ ow[o] = "unlock"
    /\ mu' = 0
    /\ ow' = [ow EXCEPT ![o] = "done"]
    /\ UNCHANGED <<ppc, objLeft, okind, oc, gerr, gctxDone, objFailOrder,
                   planObjects, planSeed, planBench, queries, seedDef, benchDef,
                   entLeft, visitedSeed, visitedBench, objReads, planRet>>
    /\ UNCHANGED <<connVars, handlerVars, storeVars>>

\* objects.Wait() returns once every worker has returned.
AnyObjectDone == \E o \in Objs : ow[o] = "done"
AllObjectsDone == \A o \in Objs : ow[o] = "done"

\* Plan returns (plan, queries, err); a nil map is told from an empty one.
PlanReturn(qs, qsNil, err) ==
    /\ planRet' = [plan |-> PlanValue, queries |-> qs, queriesNil |-> qsNil,
                   err |-> err]
    /\ ppc' = "done"

\* part_000:64-70  objects.Wait(); on an error Plan returns it, otherwise
\* the seed loop starts over sdef.Seed.
WaitObjects ==
    /\ ppc = "waitobj"
    /\ AllObjectsDone
    /\ gctxDone' = TRUE
    /\ IF gerr # PlanNoErr
       THEN /\ PlanReturn(EmptyMap, TRUE, gerr)
            /\ UNCHANGED <<seedDef, entLeft>>
       ELSE /\ ppc' = "seed"
            /\ \E d \in SeedDefs : seedDef' = d /\ entLeft' = Range(d)
            /\ UNCHANGED planRet
    /\ UNCHANGED <<objLeft, okind, ow, oc, mu, gerr, objFailOrder, planObjects,
                   planSeed, planBench, queries, benchDef, visitedSeed,
                   visitedBench, objReads>>
    /\ UNCHANGED <<connVars, handlerVars, storeVars>>

\* The first of the four calls of a loop body that fails on entry e.
EntryFailure(objects, e) ==
    IF ~QParseOK(e.q) THEN "qparse"
    ELSE IF ~QMatchOK(e.q) THEN "qmatch"
    ELSE IF ~AParseOK(objects, e.a) THEN "aparse"
    ELSE IF ~ATasksOK(e.a) THEN "atasks"
    ELSE "nil"

\* The body reads plan.Objects when it reaches actions.Parse.
ReadsObjects(fail) == IF fail \in {"qparse", "qmatch"} THEN 0 ELSE 1

\* part_000:102  plan.Seed = taskMap
SeedAssignMerge(old, new) == new @@ old
SeedAssign(old, new) == new

\* part_000:141  plan.Benchmark = taskMap
BenchAssign(old, new) == new

\* part_000:124  queries[qry.String()] = ids
QueriesPutOnly(qs, key, ids) == key :> ids
QueriesPut(qs, key, ids) == MapPut(qs, key, ids)

\* part_000:70-103  one iteration of the seed loop, on an entry the range
\* has not visited yet.
SeedEntry(e) ==
    /\ ppc = "seed"
    /\ e \in entLeft
    /\ visitedSeed' = Append(visitedSeed, e)
    /\ LET fail == EntryFailure(planObjects, e) IN
       /\ objReads' = objReads + ReadsObjects(fail)
       /\ IF fail # "nil"
          THEN /\ UNCHANGED <<planSeed, entLeft>>
               /\ PlanReturn(EmptyMap, TRUE, ErrEntry(fail, e))
          ELSE /\ planSeed' = SeedAssign(planSeed,
                                  ATasks(planObjects, e.a, QMatch(e.q)))
               /\ entLeft' = entLeft \ {e}
               /\ UNCHANGED <<ppc, planRet>>
    /\ UNCHANGED <<objLeft, okind, ow, oc, mu, gerr, gctxDone, objFailOrder,
                   planObjects, planBench, queries, seedDef, benchDef,
                   visitedBench>>
    /\ UNCHANGED <<connVars, handlerVars, storeVars>>

\* part_000:105-107  the seed loop is over: the audit map is made and the
\* benchmark loop starts over sdef.Benchmark.
SeedDone ==
    /\ ppc = "seed"
    /\ entLeft = {}
    /\ queries' = EmptyMap
    /\ \E d \in BenchDefs : benchDef' = d /\ entLeft' = Range(d)
    /\ ppc' = "bench"
    /\ UNCHANGED <<objLeft, okind, ow, oc, mu, gerr, gctxDone, objFailOrder,
                   planObjects, planSeed, planBench, seedDef, visitedSeed,
                   visitedBench, objReads, planRet>>
    /\ UNCHANGED <<connVars, handlerVars, storeVars>>

\* part_000:107-142  one iteration of the benchmark loop.
BenchEntry(e) ==
    /\ ppc = "bench"
    /\ e \in entLeft
    /\ visitedBench' = Append(visitedBench, e)
    /\ LET fail == EntryFailure(planObjects, e) IN
       /\ objReads' = objReads + ReadsObjects(fail)
       /\ queries' = IF fail \in {"qparse", "qmatch"}
                     THEN queries
                     ELSE QueriesPut(queries, QString(e.q), IDs(QMatch(e.q)))
       /\ IF fail # "nil"
          THEN /\ UNCHANGED <<planBench, entLeft>>
               /\ PlanReturn(EmptyMap, TRUE, ErrEntry(fail, e))
          ELSE /\ planBench' = BenchAssign(planBench,
                                   ATasks(planObjects, e.a, QMatch(e.q)))
               /\ entLeft' = entLeft \ {e}
               /\ UNCHANGED <<ppc, planRet>>
    /\ UNCHANGED <<objLeft, okind, ow, oc, mu, gerr, gctxDone, objFailOrder,
                   planObjects, planSeed, seedDef, benchDef, visitedSeed>>
    /\ UNCHANGED <<connVars, handlerVars, storeVars>>

\* part_000:144  return plan, queries, nil
BenchDone ==
    /\ ppc = "bench"
    /\ entLeft = {}
    /\ PlanReturn(queries, FALSE, PlanNoErr)
    /\ UNCHANGED <<objLeft, okind, ow, oc, mu, gerr, gctxDone, objFailOrder,
                   planObjects, planSeed, planBench, queries, seedDef, benchDef,
                   entLeft, visitedSeed, visitedBench, objReads>>
    /\ UNCHANGED <<connVars, handlerVars, storeVars>>

\* ---------------------------------------------------------- handler values
NoBenchmark ==
    [ID |-> "", Status |-> "absent", Cluster |-> "", Scenario |-> "",
     Plan |-> EmptyPlan, Labels |-> <<>>]

NoReport == [exists |-> FALSE, Nodes |-> "", Queries |-> EmptyMap]

\* router.go:163-174  the benchmark value built from the plan.
NewBenchmark(plan) ==
    [ID |-> "bid", Status |-> "Running", Cluster |-> "cluster",
     Scenario |-> "scenario", Plan |-> plan, Labels |-> <<"bid", "cid", "sid">>]

\* router.go:193-200  the report built from the execution and the audit map.
NewReport(qs) == [exists |-> TRUE, Nodes |-> "execution", Queries |-> qs]

\* No earlier call of Plan.
NoRun == [done |-> FALSE, plan |-> EmptyPlan, queries |-> EmptyMap,
          queriesNil |-> TRUE, err |-> NotReturned]

\* What is kept of a call of Plan that returned ret: the plan and the audit
\* map of a call that succeeded, and of a call that failed the fact that it
\* did (router.go:159-161 uses nothing else of it).
Outcome(ret) ==
    IF ret.err.kind = "nil"
    THEN [done |-> TRUE, plan |-> ret.plan, queries |-> ret.queries,
          queriesNil |-> ret.queriesNil, err |-> PlanNoErr]
    ELSE [done |-> TRUE, plan |-> EmptyPlan, queries |-> EmptyMap,
          queriesNil |-> TRUE, err |-> ErrObj("failed", 0)]

HandlerEntry ==
    /\ hpc = "start"
    /\ noReset = FALSE
    /\ hret = "running"
    /\ failedAt = ""
    /\ dbCalls = {}
    /\ benchmark = NoBenchmark
    /\ report = NoReport
    /\ execPlan = EmptyPlan
    /\ steps = <<>>
    /\ run1 = NoRun
    /\ storeBench = NoBenchmark
    /\ storeReport = NoReport
    /\ txOpen = FALSE
    /\ txBench = NoBenchmark
    /\ txReport = NoReport

\* The handler returns the error of the step that failed.
HFailRetry(step) ==
    /\ failedAt' = step
    /\ hret' = "error"
    /\ hpc' = hpc
HFail(step) ==
    /\ failedAt' = step
    /\ hret' = "error"
    /\ hpc' = "done"

\* router.go:102-129  the form values, the scenario and the cluster.
HStart ==
    /\ hpc = "start"
    /\ \/ /\ \E nr \in BOOLEAN : noReset' = nr
          /\ hpc' = "list"
          /\ UNCHANGED <<hret, failedAt>>
       \/ /\ \E step \in {"form", "scenario", "cluster"} : HFail(step)
          /\ UNCHANGED noReset
    /\ UNCHANGED <<dbCalls, benchmark, report, execPlan, steps, run1>>
    /\ UNCHANGED <<connVars, storeVars, planVars>>

\* router.go:131-145  s.db.ListNodes and the labeled set.
HListNodesAlwaysReset ==
    /\ hpc = "list"
    /\ steps' = Append(steps, "list")
    /\ \/ /\ hpc' = "update"
          /\ UNCHANGED <<hret, failedAt>>
       \/ HFail("list")
    /\ UNCHANGED <<run1, noReset, dbCalls, benchmark, report, execPlan>>
    /\ UNCHANGED <<connVars, storeVars, planVars>>
HListNodes ==
    /\ hpc = "list"
    /\ steps' = Append(steps, "list")
    /\ \/ /\ hpc' = IF noReset THEN "plan" ELSE "update"
          /\ UNCHANGED <<hret, failedAt>>
       \/ HFail("list")
    /\ UNCHANGED <<run1, noReset, dbCalls, benchmark, report, execPlan>>
    /\ UNCHANGED <<connVars, storeVars, planVars>>

\* router.go:146-149  nodes.Update
HUpdate ==
    /\ hpc = "update"
    /\ steps' = Append(steps, "update")
    /\ \/ /\ hpc' = "connect"
          /\ UNCHANGED <<hret, failedAt>>
       \/ HFail("update")
    /\ UNCHANGED <<run1, noReset, dbCalls, benchmark, report, execPlan>>
    /\ UNCHANGED <<connVars, storeVars, planVars>>

\* router.go:151-154  nodes.Connect, which returns nil or an error
\* (SpecConnect has its steps).
HConnectIgnoreErr ==
    /\ hpc = "connect"
    /\ steps' = Append(steps, "connect")
    /\ \/ UNCHANGED failedAt
       \/ failedAt' = "connect"
    /\ hpc' = "plan"
    /\ UNCHANGED <<run1, noReset, hret, dbCalls, benchmark, report, execPlan>>
    /\ UNCHANGED <<connVars, storeVars, planVars>>
HConnect ==
    /\ hpc = "connect"
    /\ steps' = Append(steps, "connect")
    /\ \/ /\ hpc' = "plan"
          /\ UNCHANGED <<hret, failedAt>>
       \/ HFail("connect")
    /\ UNCHANGED <<run1, noReset, dbCalls, benchmark, report, execPlan>>
    /\ UNCHANGED <<connVars, storeVars, planVars>>

\* Connect's locals while Connect is not running.
ConnectIdle ==
    /\ cpc = "idle"
    /\ loopVar = 0
    /\ w1 = [k \in NodeIdx |-> "idle"]
    /\ w1info = [k \in NodeIdx |-> NoInfo]
    /\ peerAddrs = [k \in NodeIdx |-> EmptyString]
    /\ g1err = NoErr
    /\ ctx1Done = WithContext(FALSE)
    /\ w2 = [k \in NodeIdx |-> "idle"]
    /\ g2err = NoErr
    /\ ctx2Done = FALSE
    /\ dispatched = [k \in NodeIdx |-> NoTask]
    /\ failOrder = <<>>
    /\ written = [k \in NodeIdx |-> 0]
    /\ connRet = Running

\* What the nodes answer to PeerInfo during the handler's call of Connect:
\* all of them with addresses, or the first with none, or the last with an
\* error.
NodeAnswers ==
    {[n \in NodeIdx |-> "ok"],
     [n \in NodeIdx |-> IF n = 1 THEN "noaddr" ELSE "ok"],
     [n \in NodeIdx |-> IF n = NumNodes THEN "fail" ELSE "ok"]}

\* router.go:151, connect.go:28-31  nodes.Connect is called on the node set:
\* its first loop starts.
HConnectCall ==
    /\ hpc = "connect"
    /\ steps' = Append(steps, "connect")
    /\ hpc' = "connecting"
    /\ cpc' = "collect"
    /\ \E a \in NodeAnswers : nodeKind' = a
    /\ UNCHANGED <<loopVar, w1, w1info, peerAddrs, g1err, ctx1Done, w2, g2err,
                   ctx2Done, dispatched, failOrder, written, connRet>>
    /\ UNCHANGED <<run1, noReset, hret, failedAt, dbCalls, benchmark, report, execPlan>>
    /\ UNCHANGED <<storeVars, planVars>>

\* router.go:151-154  Connect has returned: its error is returned, or the
\* run goes on to planning; Connect's locals are gone.
HConnectReturn ==
    /\ hpc = "connecting"
    /\ cpc = "done"
    /\ IF connRet # NoErr
       THEN HFail("connect")
       ELSE /\ hpc' = "plan"
            /\ UNCHANGED <<hret, failedAt>>
    /\ nodeKind' = [n \in NodeIdx |-> "ok"]
    /\ cpc' = "idle"
    /\ loopVar' = 0
    /\ w1' = [k \in NodeIdx |-> "idle"]
    /\ w1info' = [k \in NodeIdx |-> NoInfo]
    /\ peerAddrs' = [k \in NodeIdx |-> EmptyString]
    /\ g1err' = NoErr
    /\ ctx1Done' = WithContext(FALSE)
    /\ w2' = [k \in NodeIdx |-> "idle"]
    /\ g2err' = NoErr
    /\ ctx2Done' = FALSE
    /\ dispatched' = [k \in NodeIdx |-> NoTask]
    /\ failOrder' = <<>>
    /\ written' = [k \in NodeIdx |-> 0]
    /\ connRet' = Running
    /\ UNCHANGED <<run1, noReset, dbCalls, benchmark, report, execPlan, steps>>
    /\ UNCHANGED <<storeVars, planVars>>

\* router.go:158, part_000:31-38  scenarios.Plan is called: an empty plan,
\* and the objects loop starts over sdef.Objects.
HPlanCall ==
    /\ hpc = "plan"
    /\ steps' = Append(steps, "plan")
    /\ hpc' = "planning"
    /\ ppc' = "objects"
    /\ objLeft' = Objs
    /\ UNCHANGED <<okind, ow, oc, mu, gerr, gctxDone, objFailOrder, planObjects,
                   planSeed, planBench, queries, seedDef, benchDef, entLeft,
                   visitedSeed, visitedBench, objReads, planRet>>
    /\ UNCHANGED <<run1, noReset, hret, failedAt, dbCalls, benchmark, report, execPlan>>
    /\ UNCHANGED <<connVars, storeVars>>

\* router.go:159  if err != nil
PlanFailedNever(ret) == FALSE
PlanFailed(ret) == ret.err.kind # "nil"

\* router.go:158-174  Plan has returned: its error is returned, or the
\* benchmark value is built.
HPlanReturn ==
    /\ hpc = "planning"
    /\ UNCHANGED steps
    /\ ppc = "done"
    /\ IF PlanFailed(planRet)
       THEN /\ HFail("plan")
            /\ UNCHANGED benchmark
       ELSE /\ benchmark' = NewBenchmark(planRet.plan)
            /\ hpc' = "create"
            /\ UNCHANGED <<hret, failedAt>>
    /\ UNCHANGED <<run1, noReset, dbCalls, report, execPlan>>
    /\ UNCHANGED <<connVars, storeVars, planVars>>

\* The store's CreateBenchmark and UpdateBenchmark: the record is stored as
\* given (its identifier, status, cluster, scenario, plan and labels), and
\* returned as stored.
StoredBenchmark(b) == b

\* router.go:176-180  benchmark, err = s.db.CreateBenchmark(ctx, benchmark)
HCreateBenchmark ==
    /\ hpc = "create"
    /\ steps' = Append(steps, "create")
    /\ dbCalls' = dbCalls \cup {"CreateBenchmark"}
    /\ \/ /\ storeBench' = StoredBenchmark(benchmark)
          /\ benchmark' = storeBench'
          /\ hpc' = "run"
          /\ UNCHANGED <<hret, failedAt>>
       \/ /\ HFail("create")
          /\ UNCHANGED <<storeBench, benchmark>>
    /\ UNCHANGED <<run1, noReset, report, execPlan>>
    /\ UNCHANGED <<storeReport, txOpen, txBench, txReport>>
    /\ UNCHANGED <<connVars, planVars>>

\* router.go:182-208  scenarios.Run on the plan, and the report.
HRunMarkFailed ==
    /\ hpc = "run"
    /\ execPlan' = planRet.plan
    /\ \/ /\ report' = NewReport(planRet.queries)
          /\ steps' = steps \o <<"run", "report">>
          /\ hpc' = "txbegin"
          /\ UNCHANGED <<hret, failedAt, storeBench>>
       \/ /\ HFail("run")
          /\ steps' = Append(steps, "run")
          /\ storeBench' = [storeBench EXCEPT !.Status = "Failed"]
          /\ UNCHANGED report
    /\ UNCHANGED <<run1, noReset, dbCalls, benchmark>>
    /\ UNCHANGED <<storeReport, txOpen, txBench, txReport>>
    /\ UNCHANGED <<connVars, planVars>>
HRun ==
    /\ hpc = "run"
    /\ execPlan' = planRet.plan
    /\ \/ /\ report' = NewReport(planRet.queries)
          /\ steps' = steps \o <<"run", "report">>
          /\ hpc' = "txbegin"
          /\ UNCHANGED <<hret, failedAt>>
       \/ /\ HFail("run")
          /\ steps' = Append(steps, "run")
          /\ UNCHANGED report
    /\ UNCHANGED <<run1, noReset, dbCalls, benchmark>>
    /\ UNCHANGED <<connVars, storeVars, planVars>>

\* A write transaction of the store: it works on its own view, which
\* replaces the store's when it commits and is dropped when it rolls back.
TxBegin ==
    /\ txOpen' = TRUE
    /\ txBench' = storeBench
    /\ txReport' = storeReport
    /\ UNCHANGED <<storeBench, storeReport>>

TxRollback ==
    /\ txOpen' = FALSE
    /\ txBench' = NoBenchmark
    /\ txReport' = NoReport
    /\ UNCHANGED <<storeBench, storeReport>>

TxCommit ==
    /\ txOpen' = FALSE
    /\ storeBench' = txBench
    /\ storeReport' = txReport
    /\ txBench' = NoBenchmark
    /\ txReport' = NoReport

\* router.go:210-212  s.db.Update(ctx, func(tx) ...) starts.
HTxBegin ==
    /\ hpc = "txbegin"
    /\ steps' = Append(steps, "tx")
    /\ \/ /\ TxBegin
          /\ hpc' = "txreport"
          /\ UNCHANGED <<hret, failedAt>>
       \/ /\ HFail("txbegin")
          /\ UNCHANGED storeVars
    /\ UNCHANGED <<run1, noReset, dbCalls, benchmark, report, execPlan>>
    /\ UNCHANGED <<connVars, planVars>>

\* router.go:214-217  s.db.CreateReport(tctx, benchmark.ID, report)
HTxCreateReportNoTx ==
    /\ hpc = "txreport"
    /\ UNCHANGED steps
    /\ dbCalls' = dbCalls \cup {"CreateReport"}
    /\ \/ /\ storeReport' = report
          /\ hpc' = "txupdate"
          /\ UNCHANGED <<hret, failedAt, txOpen, txBench, txReport, storeBench>>
       \/ /\ HFail("txreport")
          /\ TxRollback
    /\ UNCHANGED <<run1, noReset, benchmark, report, execPlan>>
    /\ UNCHANGED <<connVars, planVars>>
HTxCreateReport ==
    /\ hpc = "txreport"
    /\ UNCHANGED steps
    /\ dbCalls' = dbCalls \cup {"CreateReport"}
    /\ \/ /\ txReport' = report
          /\ hpc' = "txupdate"
          /\ UNCHANGED <<hret, failedAt, txOpen, txBench, storeBench, storeReport>>
       \/ /\ HFail("txreport")
          /\ TxRollback
    /\ UNCHANGED <<run1, noReset, benchmark, report, execPlan>>
    /\ UNCHANGED <<connVars, planVars>>

\* router.go:219-223  benchmark.Status = Done; s.db.UpdateBenchmark(tctx, benchmark)
HTxUpdateBenchmarkBare ==
    /\ hpc = "txupdate"
    /\ UNCHANGED steps
    /\ benchmark' = [NoBenchmark EXCEPT !.ID = benchmark.ID, !.Status = "Done"]
    /\ dbCalls' = dbCalls \cup {"UpdateBenchmark"}
    /\ \/ /\ txBench' = StoredBenchmark(benchmark')
          /\ hpc' = "txcommit"
          /\ UNCHANGED <<hret, failedAt, txOpen, txReport, storeBench, storeReport>>
       \/ /\ HFail("txupdate")
          /\ TxRollback
    /\ UNCHANGED <<run1, noReset, report, execPlan>>
    /\ UNCHANGED <<connVars, planVars>>
HTxUpdateBenchmark ==
    /\ hpc = "txupdate"
    /\ UNCHANGED steps
    /\ benchmark' = [benchmark EXCEPT !.Status = "Done"]
    /\ dbCalls' = dbCalls \cup {"UpdateBenchmark"}
    /\ \/ /\ txBench' = StoredBenchmark(benchmark')
          /\ hpc' = "txcommit"
          /\ UNCHANGED <<hret, failedAt, txOpen, txReport, storeBench, storeReport>>
       \/ /\ HFail("txupdate")
          /\ TxRollback
    /\ UNCHANGED <<run1, noReset, report, execPlan>>
    /\ UNCHANGED <<connVars, planVars>>

\* router.go:225-231  the function returned nil: the transaction commits,
\* or fails to and rolls back.
HTxCommit ==
    /\ hpc = "txcommit"
    /\ UNCHANGED steps
    /\ \/ /\ TxCommit
          /\ hret' = "ok"
          /\ hpc' = "done"
          /\ UNCHANGED failedAt
       \/ /\ HFail("txcommit")
          /\ TxRollback
    /\ UNCHANGED <<run1, noReset, dbCalls, benchmark, report, execPlan>>
    /\ UNCHANGED <<connVars, planVars>>

\* part_000:31-38  Plan, having returned, is called once more on the same
\* scenario definition, node collection and transform: what the first call
\* returned is kept, and the second call's locals start afresh.
PlanAgain ==
    /\ hpc = "planning"
    /\ ppc = "done"
    /\ ~run1.done
    /\ run1' = Outcome(planRet)
    /\ ppc' = "objects"
    /\ objLeft' = Objs
    /\ ow' = [o \in Objs |-> "idle"]
    /\ oc' = [o \in Objs |-> 0]
    /\ mu' = 0
    /\ gerr' = PlanNoErr
    /\ gctxDone' = FALSE
    /\ objFailOrder' = <<>>
    /\ planObjects' = EmptyMap
    /\ planSeed' = EmptyMap
    /\ planBench' = EmptyMap
    /\ queries' = EmptyMap
    /\ entLeft' = {}
    /\ visitedSeed' = <<>>
    /\ visitedBench' = <<>>
    /\ objReads' = 0
    /\ planRet' = [plan |-> EmptyPlan, queries |-> EmptyMap, queriesNil |-> TRUE,
                   err |-> NotReturned]
    /\ UNCHANGED <<okind, seedDef, benchDef>>
    /\ UNCHANGED <<hpc, noReset, hret, failedAt, dbCalls, benchmark, report,
                   execPlan, steps>>
    /\ UNCHANGED <<connVars, storeVars>>

\* ------------------------------------------------------------ specifications
Init ==
    /\ nodeKind = [n \in NodeIdx |-> "ok"]
    /\ ConnectEntry
    /\ HandlerEntry
    /\ PlanIdle

Next ==
    \/ HStart
    \/ HListNodes
    \/ HUpdate
    \/ HConnect
    \/ HPlanCall
    \/ \E o \in Objs : LaunchObject(o)
    \/ \E o \in Objs : ObjGet(o)
    \/ \E o \in Objs : ObjTransform(o)
    \/ \E o \in Objs : ObjLock(o)
    \/ \E o \in Objs : ObjWrite(o)
    \/ \E o \in Objs : ObjUnlock(o)
    \/ WaitObjects
    \/ \E e \in Entries : SeedEntry(e)
    \/ SeedDone
    \/ \E e \in Entries : BenchEntry(e)
    \/ BenchDone
    \/ HPlanReturn
    \/ HCreateBenchmark
    \/ HRun
    \/ HTxBegin
    \/ HTxCreateReport
    \/ HTxUpdateBenchmark
    \/ HTxCommit

Spec == Init /\ [][Next]_vars

InitConnect ==
    /\ nodeKind \in [NodeIdx -> {"ok", "noaddr", "fail"}]
    /\ ConnectEntry
    /\ HandlerEntry
    /\ PlanIdle

NextConnect ==
    \/ LaunchCollect
    \/ \E k \in NodeIdx : CollectPeerInfo(k)
    \/ \E k \in NodeIdx : CollectWrite(k)
    \/ WaitCollect
    \/ LaunchBroadcast
    \/ \E k \in NodeIdx : BroadcastRun(k)
    \/ WaitBroadcast

SpecConnect == InitConnect /\ [][NextConnect]_vars

\* The handler with Connect and Plan both run step by step.
InitRun ==
    /\ nodeKind = [n \in NodeIdx |-> "ok"]
    /\ ConnectIdle
    /\ HandlerEntry
    /\ PlanIdle

NextRun ==
    \/ HStart
    \/ HListNodes
    \/ HUpdate
    \/ HConnectCall
    \/ LaunchCollect
    \/ \E k \in NodeIdx : CollectPeerInfo(k)
    \/ \E k \in NodeIdx : CollectWrite(k)
    \/ WaitCollect
    \/ LaunchBroadcast
    \/ \E k \in NodeIdx : BroadcastRun(k)
    \/ WaitBroadcast
    \/ HConnectReturn
    \/ HPlanCall
    \/ \E o \in Objs : LaunchObject(o)
    \/ \E o \in Objs : ObjGet(o)
    \/ \E o \in Objs : ObjTransform(o)
    \/ \E o \in Objs : ObjLock(o)
    \/ \E o \in Objs : ObjWrite(o)
    \/ \E o \in Objs : ObjUnlock(o)
    \/ WaitObjects
    \/ \E e \in Entries : SeedEntry(e)
    \/ SeedDone
    \/ \E e \in Entries : BenchEntry(e)
    \/ BenchDone
    \/ HPlanReturn
    \/ HCreateBenchmark
    \/ HRun
    \/ HTxBegin
    \/ HTxCreateReport
    \/ HTxUpdateBenchmark
    \/ HTxCommit

SpecRun == InitRun /\ [][NextRun]_vars

\* The same, with every call of a collaborator returning and every
\* goroutine that can take a step being scheduled at some time.
FairSpecRun == SpecRun /\ WF_vars(NextRun)

\* Two calls of Plan, one after the other, on the same arguments.
NextTwice ==
    \/ HStart
    \/ HListNodes
    \/ HUpdate
    \/ HConnect
    \/ HPlanCall
    \/ \E o \in Objs : LaunchObject(o)
    \/ \E o \in Objs : ObjGet(o)
    \/ \E o \in Objs : ObjTransform(o)
    \/ \E o \in Objs : ObjLock(o)
    \/ \E o \in Objs : ObjWrite(o)
    \/ \E o \in Objs : ObjUnlock(o)
    \/ WaitObjects
    \/ \E e \in Entries : SeedEntry(e)
    \/ SeedDone
    \/ \E e \in Entries : BenchEntry(e)
    \/ BenchDone
    \/ PlanAgain

SpecTwice == Init /\ [][NextTwice]_vars

\* ------------------------------------------------------------------ claims

\* C1 (as stated): whenever some node of the collection reports zero
\* addresses, no connect task is dispatched to any node and Connect, once
\* it has returned, has returned an error.
C1_NoPartialBroadcast ==
    (\E n \in NodeIdx : nodeKind[n] = "noaddr") =>
        /\ \A k \in NodeIdx : dispatched[k] = NoTask
        /\ cpc = "done" => connRet # NoErr

\* C2 (as stated): when every node answers its peer info with an address,
\* Connect has, by the time it returns, dispatched exactly one connect task
\* to each node, and every task's subject holds one dial string per node,
\* the i-th being node i's first address and peer identifier.
C2_FullBroadcast ==
    ((\A n \in NodeIdx : nodeKind[n] = "ok") /\ cpc = "done") =>
        /\ \A n \in NodeIdx :
              Cardinality({k \in NodeIdx : dispatched[k].node = n}) = 1
        /\ \A k \in NodeIdx :
              /\ dispatched[k].Type = "connect"
              /\ DOMAIN dispatched[k].Subject = NodeIdx
              /\ \A i \in NodeIdx :
                    dispatched[k].Subject[i] = DialString(PeerInfoOf(i))

\* The group of the phase in which members have failed.
FailedGroupErr == IF g1err # NoErr THEN g1err ELSE g2err
FailedGroupCtxDone == IF g1err # NoErr THEN ctx1Done ELSE ctx2Done

\* C10: in each phase of Connect, once a member has failed, the phase's
\* context is cancelled and the group holds the error of the member that
\* failed first, whatever fails later; that error is what Connect returns.
C10_FirstErrorReturned ==
    failOrder # <<>> =>
        /\ FailedGroupErr = failOrder[1].err
        /\ FailedGroupCtxDone
        /\ cpc = "done" => connRet = failOrder[1].err

\* C10 witness: Connect returned the first of two different errors.
C10_Witness ==
    /\ cpc = "done"
    /\ Len(failOrder) >= 2
    /\ failOrder[2].err # failOrder[1].err
    /\ connRet = failOrder[1].err

PlanSucceeded == ppc = "done" /\ planRet.err.kind = "nil"

\* The task assignment Plan computes for one entry.
TasksOf(e) == ATasks(planObjects, e.a, QMatch(e.q))

Disjoint(d) == Range(QMatch(d[1].q)) \cap Range(QMatch(d[2].q)) = {}

\* C3 (as stated): with two seed entries matching disjoint node sets, the
\* returned Seed map is the assignment of the second entry of the
\* definition; likewise for the Benchmark map.
C3_LastInDefinitionOrder ==
    PlanSucceeded =>
        /\ (Len(seedDef) = 2 /\ Disjoint(seedDef)) =>
              planRet.plan.Seed = TasksOf(seedDef[2])
        /\ (Len(benchDef) = 2 /\ Disjoint(benchDef)) =>
              planRet.plan.Benchmark = TasksOf(benchDef[2])

\* C3 (amended): with two entries matching disjoint node sets, the returned
\* map is the assignment of exactly one of the two entries, the one the
\* range over the map visited last, and holds nothing for the nodes of the
\* other; likewise for the Benchmark map.
C3_LastVisitedOnly ==
    PlanSucceeded =>
        /\ (Len(seedDef) = 2 /\ Disjoint(seedDef)) =>
              /\ Range(visitedSeed) = Range(seedDef)
              /\ planRet.plan.Seed = TasksOf(visitedSeed[2])
              /\ DOMAIN planRet.plan.Seed \cap Range(QMatch(visitedSeed[1].q)) = {}
        /\ (Len(benchDef) = 2 /\ Disjoint(benchDef)) =>
              /\ Range(visitedBench) = Range(benchDef)
              /\ planRet.plan.Benchmark = TasksOf(visitedBench[2])
              /\ DOMAIN planRet.plan.Benchmark
                     \cap Range(QMatch(visitedBench[1].q)) = {}

\* C3 witness: the range visited the definition's second seed entry first,
\* and the first entry's assignment is the one that survived.
C3_Witness ==
    /\ PlanSucceeded
    /\ Len(seedDef) = 2
    /\ Disjoint(seedDef)
    /\ visitedSeed = <<seedDef[2], seedDef[1]>>
    /\ planRet.plan.Seed = TasksOf(seedDef[1])
    /\ planRet.plan.Seed # EmptyMap

\* C4: once every object worker has succeeded, the Objects map holds every
\* object name with its CID; when a worker failed, Plan returns the first
\* such error and seed and benchmark planning never run or read the map.
C4_ObjectsParallelSafe ==
    /\ (ppc \in {"seed", "bench"} \/ (ppc = "done" /\ objFailOrder = <<>>)) =>
          /\ DOMAIN planObjects = Objs
          /\ \A o \in Objs : planObjects[o] = CidOf(o)
    /\ objFailOrder # <<>> =>
          /\ ppc \in {"objects", "waitobj", "done"}
          /\ objReads = 0
          /\ visitedSeed = <<>> /\ visitedBench = <<>>
          /\ ppc = "done" => planRet.err = objFailOrder[1].err

\* C4 witness: Plan returned a worker's error while another worker had
\* written its object.
C4_Witness ==
    /\ ppc = "done"
    /\ objFailOrder # <<>>
    /\ planRet.err = objFailOrder[1].err
    /\ planObjects # EmptyMap

\* C5: on success the audit map has exactly the canonical strings of the
\* benchmark entries, every one of which was processed, each with the
\* identifiers of the nodes its query matched, in the matched set's order.
C5_AuditMap ==
    PlanSucceeded =>
        /\ ~planRet.queriesNil
        /\ Range(visitedBench) = Range(benchDef)
        /\ DOMAIN planRet.queries = {QString(e.q) : e \in Range(benchDef)}
        /\ \A e \in Range(benchDef) :
              planRet.queries[QString(e.q)] = IDs(QMatch(e.q))

\* C5 witness: two benchmark entries, the first one's tasks overwritten,
\* both in the audit map.
C5_Witness ==
    /\ PlanSucceeded
    /\ Len(visitedBench) = 2
    /\ Disjoint(visitedBench)
    /\ planRet.plan.Benchmark = TasksOf(visitedBench[2])
    /\ Cardinality(DOMAIN planRet.queries) = 2

EntryFailed == ppc = "done" /\ planRet.err.kind \in {"qparse", "qmatch", "aparse", "atasks"}

\* The entries of the phase that failed, in the order visited.
FailedPhaseVisited == IF visitedBench # <<>> THEN visitedBench ELSE visitedSeed

\* C6 (as stated): when an entry fails, Plan hands back no plan content and
\* no audit map.
C6_NoPartialPlan ==
    EntryFailed => (planRet.plan = EmptyPlan /\ planRet.queriesNil)

\* C6 (amended): when an entry fails, Plan stops at that entry and returns
\* that entry's error with a nil audit map and with the plan as built so
\* far (the complete Objects map, the Seed and Benchmark maps of the
\* entries before it); the handler returns the error without storing,
\* executing or reporting anything.
C6_FailureStopsPlanning ==
    EntryFailed =>
        LET vis == FailedPhaseVisited
            last == vis[Len(vis)]
        IN  /\ planRet.queriesNil
            /\ planRet.err = ErrEntry(EntryFailure(planObjects, last), last)
            /\ last \in entLeft
            /\ \A i \in 1..(Len(vis) - 1) : EntryFailure(planObjects, vis[i]) = "nil"
            /\ planRet.plan = PlanValue
            /\ DOMAIN planRet.plan.Objects = Objs
            /\ hpc \in {"planning", "done"}
            /\ hpc = "done" => (failedAt = "plan" /\ hret = "error")
            /\ dbCalls = {}
            /\ storeBench = NoBenchmark /\ storeReport = NoReport
            /\ benchmark = NoBenchmark /\ execPlan = EmptyPlan

\* C6 witness: the handler returned the error of a benchmark entry, and
\* the plan Plan returned with it holds a Seed map.
C6_Witness ==
    /\ EntryFailed
    /\ hpc = "done"
    /\ failedAt = "plan"
    /\ visitedBench # <<>>
    /\ planRet.plan.Seed # EmptyMap

\* C7: in every state of the store a report is visible exactly when the
\* stored benchmark is Done; after a failed benchmark update that followed
\* a successful report creation no report is visible and the benchmark is
\* Running.
C7_ReportIffDone ==
    /\ storeReport.exists <=> storeBench.Status = "Done"
    /\ failedAt = "txupdate" =>
          (~storeReport.exists /\ storeBench.Status = "Running")

\* C7 witness: the update failed after the report had been created in the
\* transaction.
C7_Witness ==
    /\ failedAt = "txupdate"
    /\ "CreateReport" \in dbCalls
    /\ storeBench.Status = "Running"

EarlySteps == {"list", "update", "connect", "plan"}

\* C8: when listing, reset, connect or planning failed, the handler has
\* returned the error, none of CreateBenchmark, CreateReport and
\* UpdateBenchmark was called, and the store holds no benchmark record.
C8_EarlyFailureInvisible ==
    failedAt \in EarlySteps =>
        /\ hpc = "done" /\ hret = "error"
        /\ dbCalls = {}
        /\ storeBench = NoBenchmark /\ storeReport = NoReport

\* C8 witness: Connect failed.
C8_Witness == failedAt = "connect" /\ hpc = "done"

LateSteps == {"run", "txbegin", "txreport", "txupdate", "txcommit"}

\* C9: from the failure of the execution or of the final transaction on,
\* in every later state, the run is over, the stored record is the run's,
\* Running, and there is no report.
C9_LateFailureOrphan ==
    failedAt \in LateSteps =>
        /\ hpc = "done" /\ hret = "error"
        /\ storeBench = NewBenchmark(planRet.plan)
        /\ storeBench.Status = "Running"
        /\ ~storeReport.exists
        /\ ~txOpen

\* C9 witness: the execution failed after the record was created.
C9_Witness == failedAt = "run" /\ storeBench.Status = "Running"

\* Both calls of Plan have returned.
BothReturned == run1.done /\ ppc = "done"

\* The assignments a call can leave in a phase's map: that of one of the
\* phase's entries, or none when the phase has no entry.
PhaseOutcomes(d) ==
    IF d = <<>> THEN {EmptyMap} ELSE {TasksOf(d[i]) : i \in 1..Len(d)}

\* C11 (as stated): two calls of Plan on the same scenario definition and
\* node collection, with a deterministic transform, return the same
\* Objects, Seed and Benchmark maps and the same audit map, whatever the
\* interleaving of the object workers and the number of entries (stated
\* here of two calls that succeed).
C11_Deterministic ==
    (BothReturned /\ planRet.err.kind = "nil" /\ run1.err.kind = "nil") =>
        /\ planRet.plan = run1.plan
        /\ planRet.queries = run1.queries
        /\ planRet.queriesNil = run1.queriesNil

\* C11 (amended): two such calls both succeed or both fail; when they
\* succeed they return the same Objects map and the same audit map, and in
\* each phase the assignment of one of the phase's entries, the same one in
\* both calls when the phase has at most one entry.
C11_DeterministicButOrder ==
    BothReturned =>
        /\ (planRet.err.kind = "nil") <=> (run1.err.kind = "nil")
        /\ planRet.err.kind = "nil" =>
              /\ planRet.plan.Objects = run1.plan.Objects
              /\ ~planRet.queriesNil /\ ~run1.queriesNil
              /\ planRet.queries = run1.queries
              /\ planRet.plan.Seed \in PhaseOutcomes(seedDef)
              /\ run1.plan.Seed \in PhaseOutcomes(seedDef)
              /\ planRet.plan.Benchmark \in PhaseOutcomes(benchDef)
              /\ run1.plan.Benchmark \in PhaseOutcomes(benchDef)
              /\ Len(seedDef) <= 1 => planRet.plan.Seed = run1.plan.Seed
              /\ Len(benchDef) <= 1 => planRet.plan.Benchmark = run1.plan.Benchmark

\* C11 witness: two successful calls on a definition with two seed entries
\* returned the same Objects and audit maps and different Seed maps.
C11_Witness ==
    /\ BothReturned
    /\ planRet.err.kind = "nil"
    /\ Len(seedDef) = 2
    /\ planRet.plan.Seed # run1.plan.Seed
    /\ planRet.plan.Objects = run1.plan.Objects
    /\ planRet.queries = run1.queries
    /\ planRet.queries # EmptyMap

\* The address-collection phase of Connect has succeeded.
CollectSucceeded ==
    cpc \in {"broadcast", "wait2"} \/ (cpc = "done" /\ g1err = NoErr)

\* C12 (as stated): the address-collection worker started for the node at
\* index i writes only slot i of the results array, no two workers write
\* the same slot, and once the phase has succeeded every slot i holds node
\* i's first address followed by /p2p/ and node i's peer identifier.
C12_OneWriterPerSlot ==
    /\ \A k \in NodeIdx : written[k] \in {0, k}
    /\ \A j, k \in NodeIdx :
          (j # k /\ written[j] # 0) => written[j] # written[k]
    /\ CollectSucceeded =>
          \A i \in NodeIdx : peerAddrs[i] = DialString(PeerInfoOf(i))

\* C13 (as stated; the caller's context is never cancelled here): when the
\* address-collection phase has succeeded, the context of the connect tasks
\* is not cancelled at the moment the broadcast phase starts, and it is
\* cancelled, while the phase runs, only once a connect task has failed: a
\* task is handed a cancelled context only after a sibling's failure.
C13_LiveBroadcast ==
    /\ (cpc = "broadcast" /\ loopVar = 0) => ~ctx2Done
    /\ (cpc \in {"broadcast", "wait2"} /\ ctx2Done) => failOrder # <<>>
    /\ \A k \in NodeIdx :
          (dispatched[k] # NoTask /\ dispatched[k].ctxDone) =>
              \E i \in 1..Len(failOrder) : failOrder[i].worker # k

\* C14: in Plan, once seed or benchmark planning has started or read the
\* Objects table, and once Plan has returned (with or without an error),
\* every object worker has returned, so that none writes the table later;
\* in Connect, once the second loop has started, a connect goroutine
\* exists or a connect task has been dispatched (its subject read from the
\* results array), every address-collection goroutine has returned.
C14_StrictSequencing ==
    /\ (objReads > 0 \/ ppc \in {"seed", "bench", "done"}
            \/ visitedSeed # <<>> \/ visitedBench # <<>>) =>
          \A o \in Objs : ow[o] = "done"
    /\ (cpc \in {"broadcast", "wait2"}
            \/ \E k \in NodeIdx : w2[k] # "idle" \/ dispatched[k] # NoTask) =>
          \A k \in NodeIdx : w1[k] = "done"

\* C14 witness: in a run whose Connect dispatched its tasks and returned,
\* benchmark planning has read the Objects table.
C14_Witness ==
    /\ steps = <<"list", "update", "connect", "plan">>
    /\ ppc = "bench"
    /\ objReads > 1
    /\ \A o \in Objs : ow[o] = "done"

\* The worker of object o is between mu.Lock() and mu.Unlock().
InWrite(o) == ow[o] \in {"write", "unlock"}

\* C15: at most one object worker at a time is inside the write to the
\* Objects table, that worker is the one holding the mutex, and a worker
\* that is calling, or has yet to call, the transform holds no lock.
C15_MutualExclusion ==
    /\ \A o1, o2 \in Objs : (InWrite(o1) /\ InWrite(o2)) => o1 = o2
    /\ \A o \in Objs : InWrite(o) <=> mu = o
    /\ \A o \in Objs : ow[o] \in {"idle", "get", "transform"} => mu # o

\* C15 witness: a worker is about to write the table while another one,
\* its transform done, waits for the lock.
C15_Witness ==
    \E o1, o2 \in Objs :
        /\ ow[o1] = "write"
        /\ mu = o1
        /\ ow[o2] = "lock"

\* The steps of a run in the order the claim gives them: list the nodes,
\* reset ("update"), connect, plan, persist Running ("create"), execute
\* ("run"), aggregate ("report"), persist Done ("tx"); reset and connect
\* are left out under the no-reset option.
StepOrder ==
    IF noReset
    THEN <<"list", "plan", "create", "run", "report", "tx">>
    ELSE <<"list", "update", "connect", "plan", "create", "run", "report", "tx">>

IsPrefix(a, b) == Len(a) <= Len(b) /\ a = SubSeq(b, 1, Len(a))

Started(step) == step \in Range(steps)

\* The step a failure belongs to.
FailStep(f) ==
    IF f \in {"txbegin", "txreport", "txupdate", "txcommit"} THEN "tx" ELSE f

C16_Order ==
    /\ IsPrefix(steps, StepOrder)
    /\ failedAt # "" => (hpc = "done" /\ hret = "error")
    /\ failedAt \in {"form", "scenario", "cluster"} => steps = <<>>
    /\ failedAt \notin {"", "form", "scenario", "cluster"} =>
          steps[Len(steps)] = FailStep(failedAt)
    /\ cpc # "idle" => (hpc = "connecting" /\ steps[Len(steps)] = "connect")
    /\ Started("plan") => cpc = "idle"
    /\ ppc # "idle" => Started("plan")
    /\ ppc \notin {"idle", "done"} => (hpc = "planning" /\ steps[Len(steps)] = "plan")
    /\ Started("create") => (ppc = "done" /\ planRet.err.kind = "nil")
    /\ Started("run") => storeBench.Status \in {"Running", "Done"}
    /\ Started("report") => report.exists
    /\ storeBench.Status = "Done" => (steps = StepOrder /\ hret = "ok")
    /\ hret = "ok" => (steps = StepOrder /\ storeBench.Status = "Done")

C16_StatusMoves ==
    storeBench'.Status # storeBench.Status =>
        <<storeBench.Status, storeBench'.Status>>
            \in {<<"absent", "Running">>, <<"Running", "Done">>}

\* C16: the steps a run has started are, in order and none twice, an
\* initial part of reset, connect, plan, persist Running, execute,
\* aggregate, persist Done; a step has started only once the one before it
\* has completed with success (Connect has returned before Plan is called,
\* Plan has returned without error before the record is created, the
\* record is stored before the execution, the report is made before the
\* final transaction); after a failure the run is over with the failed
\* step as its last; and the stored status only moves from none to Running
\* and from Running to Done.
C16_StepOrder == []C16_Order /\ [][C16_StatusMoves]_vars

\* C16 witness: a run with reset and connect went through every step and
\* the record is stored as Done.
C16_Witness ==
    /\ ~noReset
    /\ steps = StepOrder
    /\ hret = "ok"
    /\ storeBench.Status = "Done"

\* C17: without the no-reset option, Connect is started only as the step
\* after a reset that succeeded, planning only after both, and a failed
\* reset ends the run with Connect never started; with the option, neither
\* reset nor Connect is ever started and planning is the step after the
\* listing of the nodes.  Connect, when it runs, runs over the full node
\* set.
C17_ResetConnectGating ==
    /\ noReset =>
          /\ ~Started("update") /\ ~Started("connect")
          /\ cpc = "idle"
          /\ failedAt \notin {"update", "connect"}
          /\ Started("plan") => SubSeq(steps, 1, 2) = <<"list", "plan">>
    /\ ~noReset =>
          /\ Started("connect") =>
                (SubSeq(steps, 1, 3) = <<"list", "update", "connect">>
                    /\ failedAt # "update")
          /\ cpc # "idle" => Started("connect")
          /\ Started("plan") =>
                SubSeq(steps, 1, 4) = <<"list", "update", "connect", "plan">>
          /\ failedAt = "update" =>
                (hpc = "done" /\ ~Started("connect") /\ cpc = "idle"
                    /\ ~Started("plan"))
    /\ cpc \notin {"idle", "collect"} => \A k \in NodeIdx : w1[k] # "idle"
    /\ cpc = "wait2" => \A k \in NodeIdx : w2[k] # "idle"

\* C17 witness: a run under the no-reset option reached Done.
C17_Witness ==
    /\ noReset
    /\ hret = "ok"
    /\ steps = <<"list", "plan", "create", "run", "report", "tx">>

\* What a benchmark record holds besides its status.
Carried(b) ==
    [ID |-> b.ID, Cluster |-> b.Cluster, Scenario |-> b.Scenario,
     Plan |-> b.Plan, Labels |-> b.Labels]

C18_SamePlan ==
    /\ storeBench.Status # "absent" =>
          /\ PlanSucceeded
          /\ storeBench.Plan = planRet.plan
          /\ Carried(storeBench) =
                [ID |-> "bid", Cluster |-> "cluster", Scenario |-> "scenario",
                 Plan |-> planRet.plan, Labels |-> <<"bid", "cid", "sid">>]
          /\ Carried(benchmark) = Carried(storeBench)
    /\ Started("run") => (execPlan = planRet.plan /\ execPlan = storeBench.Plan)
    /\ txBench.Status # "absent" => Carried(txBench) = Carried(storeBench)
    /\ storeBench.Status = "Done" => storeReport.Queries = planRet.queries

C18_RecordKept ==
    /\ ppc = "done" => planRet' = planRet
    /\ storeBench.Status # "absent" =>
          (storeBench' = storeBench
              \/ (storeBench.Status = "Running"
                     /\ storeBench' = [storeBench EXCEPT !.Status = "Done"]))

\* C18: the record stored at status Running carries the plan that Plan
\* returned, with the run's identifier, cluster, scenario and labels; the
\* plan handed to the executor is that same plan; what Plan returned never
\* changes afterwards; and the only change ever made to the stored record
\* is its status going from Running to Done.
C18_PlanBuiltOnce == []C18_SamePlan /\ [][C18_RecordKept]_vars

\* C18 witness: the record is Done and carries the plan, with seed tasks,
\* that the executor was handed.
C18_Witness ==
    /\ storeBench.Status = "Done"
    /\ storeBench.Plan = execPlan
    /\ execPlan = planRet.plan
    /\ execPlan.Seed # EmptyMap
    /\ execPlan.Objects # EmptyMap

\* The run is over: an error was returned, or the benchmark is stored as
\* Done together with its report.
RunEnded ==
    /\ hpc = "done"
    /\ \/ hret = "error" /\ failedAt # ""
       \/ /\ hret = "ok"
          /\ storeBench.Status = "Done"
          /\ storeReport.exists

\* No goroutine outlives the call that started it.
WorkersJoined ==
    /\ cpc = "done" =>
          /\ \A k \in NodeIdx : w1[k] = "done"
          /\ \A k \in NodeIdx : w2[k] = (IF g1err = NoErr THEN "done" ELSE "idle")
    /\ ppc = "done" => \A o \in Objs : ow[o] = "done"
    /\ hpc \notin {"connecting"} => cpc = "idle"
    /\ hpc \notin {"planning"} => ppc \in {"idle", "done"}

\* C19: with every collaborator call returning, every run of the handler
\* ends, with an error returned or with the benchmark stored as Done
\* together with its report, and stays ended; Connect and Plan have
\* returned only when every goroutine they started has.
C19_Terminates == <>[]RunEnded /\ []WorkersJoined

\* C19 witness: a run that went through Connect has ended with the error
\* of an object worker, the other worker having returned after it.
C19_Witness ==
    /\ RunEnded
    /\ steps = <<"list", "update", "connect", "plan">>
    /\ failedAt = "plan"
    /\ objFailOrder # <<>>
    /\ \E o \in Objs : objFailOrder[1].worker # o /\ ow[o] = "done"

====
